---- MODULE Spec2Model ----
(***************************************************************************)
(* The financial analyzer of NEW.py: the categorizer                       *)
(* (categorize_transaction_with_multiple, categorize_all_transactions)     *)
(* and the three aggregation passes (calculate_basic_stats,                *)
(* calculate_by_category, analyze_by_time) as a state machine over the     *)
(* transaction list and the last call's outcome.                           *)
(*                                                                         *)
(* Text.  A Python str is a sequence of characters.  The module is ASCII,  *)
(* so every Cyrillic letter is written as one token, one sequence element  *)
(* per letter ("zh" is the single letter zhe, "soft" the soft sign), and   *)
(* an upper-case letter as the upper-cased token ("K").  Category names    *)
(* are only compared for equality and are written as transliterated        *)
(* strings.  Amounts are integers; the percentage, a float quotient in the *)
(* code, is kept as the exact fraction <<numerator, denominator>>.         *)
(***************************************************************************)
EXTENDS Integers, Sequences, FiniteSets, TLC

VARIABLES
  description,          \* argument of a direct categorize_transaction_with_multiple call
  categories,           \* NEW.py global: dict category -> keyword list, as <<key, value>> pairs in insertion order
  categories_priority,  \* NEW.py global: list of category names
  transactions,         \* the list of transaction dicts handed through the pipeline
  categorize_runs,      \* how often categorize_all_transactions has run on the list: 0, 1, 2 = twice or more
  ret                   \* outcome of the last call: [op, raised, value]

vars == <<description, categories, categories_priority, transactions, categorize_runs, ret>>

----------------------------------------------------------------------------
(* Bounds of the explored inputs.                                          *)

MaxDescLen == 3
MaxPriority == 2
MaxPipelineTx == 2
MaxStatsTx == 3
MaxTimeTx == 3
MaxSampleTx == 2
MaxTopTx == 4

----------------------------------------------------------------------------
(* Python values.                                                          *)

\* str.lower() on the letters of the model's alphabet.
LowerMap ==
  "A" :> "a" @@ "B" :> "b" @@ "C" :> "c" @@ "CH" :> "ch" @@ "D" :> "d" @@ "E" :> "e" @@
  "EH" :> "eh" @@ "F" :> "f" @@ "G" :> "g" @@ "H" :> "h" @@ "HARD" :> "hard" @@ "I" :> "i" @@
  "J" :> "j" @@ "K" :> "k" @@ "L" :> "l" @@ "M" :> "m" @@ "N" :> "n" @@ "O" :> "o" @@
  "P" :> "p" @@ "R" :> "r" @@ "S" :> "s" @@ "SCH" :> "sch" @@ "SH" :> "sh" @@ "SOFT" :> "soft" @@
  "T" :> "t" @@ "U" :> "u" @@ "V" :> "v" @@ "Y" :> "y" @@ "YA" :> "ya" @@ "YO" :> "yo" @@
  "YU" :> "yu" @@ "Z" :> "z" @@ "ZH" :> "zh"


Lower(c) == IF c \in DOMAIN LowerMap THEN LowerMap[c] ELSE c

Upper(c) ==
  IF \E u \in DOMAIN LowerMap : LowerMap[u] = c
  THEN CHOOSE u \in DOMAIN LowerMap : LowerMap[u] = c
  ELSE c

StrLower(s) == [i \in 1..Len(s) |-> Lower(s[i])]

StrUpper(s) == [i \in 1..Len(s) |-> Upper(s[i])]

\* Python's `k in s` on two str: k occurs in s as a contiguous run.
StrIn(k, s) ==
  \E i \in 0..(Len(s) - Len(k)) : SubSeq(s, i + 1, i + Len(k)) = k

\* dict.get(key, default) on a dict kept as <<key, value>> pairs.
DictGet(d, key, default) ==
  IF \E i \in 1..Len(d) : d[i][1] = key
  THEN d[CHOOSE i \in 1..Len(d) : d[i][1] = key][2]
  ELSE default

\* t.get(key, default) on a transaction dict (a function on its keys).
Get(t, key, default) == IF key \in DOMAIN t THEN t[key] ELSE default

----------------------------------------------------------------------------
(* The rule table shipped in NEW.py.                                       *)

ShippedCategories ==
  <<<<"produkty",
      <<<<"p", "r", "o", "d", "u", "k", "t", "y">>,
        <<"m", "a", "g", "a", "z", "i", "n">>,
        <<"p", "r", "o", "d", "u", "k", "t", "o", "v", "y", "j">>,
        <<"p", "ya", "t", "yo", "r", "o", "ch", "k", "a">>,
        <<"n", "i", "k", "a">>,
        <<"k", "a", "s", "i", "r", "a">>>>>>,
    <<"obed i restorany",
      <<<<"r", "e", "s", "t", "o", "r", "a", "n">>,
        <<"k", "a", "f", "e">>,
        <<"o", "b", "e", "d">>,
        <<"b", "e", "s", "p", "l", "a", "t", "n", "o">>,
        <<"u", "zh", "i", "n">>,
        <<"z", "a", "v", "t", "r", "a", "k">>>>>>,
    <<"transport",
      <<<<"t", "a", "k", "s", "i">>,
        <<"a", "v", "t", "o", "b", "u", "s">>,
        <<"m", "e", "t", "r", "o">>,
        <<"t", "r", "a", "n", "s", "p", "o", "r", "t">>,
        <<"b", "i", "l", "e", "t">>>>>>,
    <<"uslugi",
      <<<<"m", "o", "b", "i", "l", "soft", "n", "y", "j">>,
        <<"i", "n", "t", "e", "r", "n", "e", "t">>,
        <<"u", "s", "l", "u", "g", "a">>,
        <<"s", "e", "r", "v", "i", "s">>,
        <<"r", "e", "m", "o", "n", "t">>>>>>,
    <<"razvlecheniya",
      <<<<"k", "i", "n", "o">>,
        <<"t", "e", "a", "t", "r">>,
        <<"k", "o", "n", "c", "e", "r", "t">>,
        <<"i", "g", "r", "y">>,
        <<"k", "i", "n", "o", "t", "e", "a", "t", "r">>>>>>,
    <<"odezhda",
      <<<<"o", "d", "e", "zh", "d", "a">>,
        <<"o", "b", "u", "v", "soft">>,
        <<"m", "a", "g", "a", "z", "i", "n", " ", "o", "d", "e", "zh", "d", "y">>,
        <<"g", "a", "r", "d", "e", "r", "o", "b">>>>>>,
    <<"zdravoohranenie",
      <<<<"a", "p", "t", "e", "k", "a">>,
        <<"l", "e", "k", "a", "r", "s", "t", "v", "o">>,
        <<"m", "e", "d", "i", "c", "i", "n">>,
        <<"v", "r", "a", "ch">>>>>>,
    <<"sport",
      <<<<"s", "p", "o", "r", "t">>,
        <<"t", "r", "e", "n", "a", "zh", "yo", "r", "k", "a">>,
        <<"f", "i", "t", "n", "e", "s">>,
        <<"s", "p", "o", "r", "t", "z", "a", "l">>>>>>,
    <<"obrazovanie",
      <<<<"k", "u", "r", "s">>,
        <<"u", "ch", "e", "b", "a">>,
        <<"sh", "k", "o", "l", "a">>,
        <<"u", "n", "i", "v", "e", "r", "s", "i", "t", "e", "t">>>>>>,
    <<"kommunal'nye uslugi",
      <<<<"K", "o", "m", "m", "u", "n", "a", "l", "k", "a">>,
        <<"v", "o", "d", "a">>,
        <<"eh", "l", "e", "k", "t", "r", "i", "ch", "e", "s", "t", "v", "o">>,
        <<"g", "a", "z">>>>>>,
    <<"depozit/investicii",
      <<<<"k", "l", "i", "e", "n", "t", "o", "v">>,
        <<"d", "e", "p", "o", "z", "i", "t">>,
        <<"i", "n", "v", "e", "s", "t", "i", "c", "i", "i">>>>>>,
    <<"zarplata i dohody",
      <<<<"z", "a", "r", "p", "l", "a", "t", "a">>,
        <<"d", "o", "h", "o", "d">>,
        <<"p", "e", "r", "e", "v", "o", "d">>>>>>,
    <<"pogashenie kredita",
      <<<<"k", "r", "e", "d", "i", "t">>,
        <<"i", "p", "o", "t", "e", "k", "a">>,
        <<"p", "o", "g", "a", "sh", "e", "n", "i", "e">>>>>>,
    <<"podarki",
      <<<<"p", "o", "d", "a", "r", "o", "k">>,
        <<"p", "o", "z", "d", "r", "a", "v", "l", "e", "n", "i", "e">>>>>>,
    <<"nalogi",
      <<<<"n", "a", "l", "o", "g">>,
        <<"f", "i", "s", "k", "a", "l", "soft", "n", "y", "j">>>>>>>>

ShippedPriority ==
  <<"zarplata i dohody",
    "pogashenie kredita",
    "produkty",
    "obed i restorany",
    "transport",
    "uslugi",
    "razvlecheniya",
    "odezhda",
    "zdravoohranenie",
    "sport",
    "obrazovanie",
    "kommunal'nye uslugi",
    "depozit/investicii",
    "podarki",
    "nalogi">>

\* The value returned when no category matches.
Fallback == "drugoe"

\* The default of t.get('category', ...) in the aggregation passes.
NoCategory == "Bez kategorii"

----------------------------------------------------------------------------
(* Categorizer.                                                            *)

\* any(keyword in description_low for keyword in keywords)
AnyKeywordIn(keywords, description_low) ==
  \E j \in 1..Len(keywords) : StrIn(keywords[j], description_low)

\* The loop over categories_priority that fills matched_categories.
RECURSIVE MatchedCategories(_, _, _)
MatchedCategories(description_low, cats, priority) ==
  IF priority = <<>> THEN <<>>
  ELSE LET category == Head(priority)
           keywords == DictGet(cats, category, <<>>)
           rest     == MatchedCategories(description_low, cats, Tail(priority))
       IN  IF AnyKeywordIn(keywords, description_low)
           THEN <<category>> \o rest
           ELSE rest

LastMatchMutant(desc, cats, priority) ==
  LET matched_categories == MatchedCategories(StrLower(desc), cats, priority)
  IN  IF matched_categories # <<>>
      THEN matched_categories[Len(matched_categories)]
      ELSE Fallback

categorize_transaction_with_multiple(desc, cats, priority) ==
  LET description_low    == StrLower(desc)
      matched_categories == MatchedCategories(description_low, cats, priority)
  IN  IF matched_categories # <<>> THEN matched_categories[1] ELSE Fallback

KeepCategoryMutant(t, cats, priority) ==
  LET desc     == Get(t, "description", <<>>)
      category == categorize_transaction_with_multiple(desc, cats, priority)
  IN  t @@ ("category" :> category)

DropDescriptionMutant(t, cats, priority) ==
  LET desc     == Get(t, "description", <<>>)
      category == categorize_transaction_with_multiple(desc, cats, priority)
  IN  [k \in (DOMAIN t \cup {"category"}) \ {"description"} |->
         IF k = "category" THEN category ELSE t[k]]

\* The body of the loop of categorize_all_transactions for one transaction.
CategorizeOne(t, cats, priority) ==
  LET desc     == Get(t, "description", <<>>)
      category == categorize_transaction_with_multiple(desc, cats, priority)
  IN  ("category" :> category) @@ t

categorize_all_transactions(txs, cats, priority) ==
  [i \in 1..Len(txs) |-> CategorizeOne(txs[i], cats, priority)]

----------------------------------------------------------------------------
(* Aggregator: basic stats.                                                *)

\* sum(t['amount'] for t in transactions if t['amount'] > 0)
RECURSIVE SumPositive(_)
SumPositive(txs) ==
  IF txs = <<>> THEN 0
  ELSE (IF Head(txs)["amount"] > 0 THEN Head(txs)["amount"] ELSE 0)
       + SumPositive(Tail(txs))

\* sum(t['amount'] for t in transactions if t['amount'] < 0)
RECURSIVE SumNegative(_)
SumNegative(txs) ==
  IF txs = <<>> THEN 0
  ELSE (IF Head(txs)["amount"] < 0 THEN Head(txs)["amount"] ELSE 0)
       + SumNegative(Tail(txs))

BalanceMutant(txs) ==
  LET total_income  == SumPositive(txs)
      total_expense == SumNegative(txs)
  IN  [total_income      |-> total_income,
       total_expense     |-> total_expense,
       balance           |-> total_income - total_expense,
       transaction_count |-> Len(txs)]

calculate_basic_stats(txs) ==
  LET total_income  == SumPositive(txs)
      total_expense == SumNegative(txs)
      balance       == total_income + total_expense
  IN  [total_income      |-> total_income,
       total_expense     |-> total_expense,
       balance           |-> balance,
       transaction_count |-> Len(txs)]

----------------------------------------------------------------------------
(* Aggregator: category stats.                                             *)

\* The grouping loop: category_totals after the transactions txs.
RECURSIVE GroupLoop(_, _)
GroupLoop(category_totals, txs) ==
  IF txs = <<>> THEN category_totals
  ELSE LET t        == Head(txs)
           category == Get(t, "category", NoCategory)
           opened   == IF category \in DOMAIN category_totals
                       THEN category_totals
                       ELSE (category :> [sum |-> 0, count |-> 0]) @@ category_totals
           added    == [opened EXCEPT ![category] =
                          [sum |-> @.sum + t["amount"], count |-> @.count + 1]]
       IN  GroupLoop(added, Tail(txs))

PercentOfOwnMutant(bucket_sum, total_expenses) ==
  IF bucket_sum # 0 THEN <<(0 - bucket_sum) * 100, 0 - bucket_sum>> ELSE <<0, 1>>

\* (-data['sum'] / -total_expenses * 100) if total_expenses != 0 else 0,
\* the quotient kept as the fraction <<numerator, denominator>>.
Percent(bucket_sum, total_expenses) ==
  IF total_expenses # 0
  THEN <<(0 - bucket_sum) * 100, 0 - total_expenses>>
  ELSE <<0, 1>>

calculate_by_category(txs) ==
  LET total_expenses  == SumNegative(txs)
      category_totals == GroupLoop(<<>>, txs)
  IN  [cat \in DOMAIN category_totals |->
         [sum     |-> category_totals[cat].sum,
          count   |-> category_totals[cat].count,
          percent |-> Percent(category_totals[cat].sum, total_expenses)]]

----------------------------------------------------------------------------
(* Aggregator: time stats.  datetime.strptime(date, '%Y-%m-%d') matches    *)
(* the text against \d\d\d\d-(1[0-2]|0[1-9]|[1-9])-(3[01]|[12]\d|0[1-9]|   *)
(* [1-9]| [1-9]), alternatives tried in that order, then rejects text left *)
(* over after the match and dates the calendar does not have.              *)

Digits == {"0", "1", "2", "3", "4", "5", "6", "7", "8", "9"}

NonZeroDigits == Digits \ {"0"}

DigitChars == <<"0", "1", "2", "3", "4", "5", "6", "7", "8", "9">>

DigitValue(c) ==
  IF c \in Digits THEN (CHOOSE i \in 1..10 : DigitChars[i] = c) - 1 ELSE 0

\* The character at position i, "" past either end.
CharAt(s, i) == IF i >= 1 /\ i <= Len(s) THEN s[i] ELSE ""

\* int() of a run of digits (a leading blank counts for nothing).
RECURSIVE DecimalValue(_)
DecimalValue(s) ==
  IF s = <<>> THEN 0
  ELSE DecimalValue(SubSeq(s, 1, Len(s) - 1)) * 10 + DigitValue(s[Len(s)])

\* Characters the %m group takes at position 6; 0 when it cannot match.
MonthWidth(s) ==
  LET a == CharAt(s, 6)
      b == CharAt(s, 7)
  IN  IF a = "1" /\ b \in {"0", "1", "2"} THEN 2
      ELSE IF a = "0" /\ b \in NonZeroDigits THEN 2
      ELSE IF a \in NonZeroDigits THEN 1
      ELSE 0

\* Characters the %d group takes at position p; 0 when it cannot match.
DayWidth(s, p) ==
  LET a == CharAt(s, p)
      b == CharAt(s, p + 1)
  IN  IF a = "3" /\ b \in {"0", "1"} THEN 2
      ELSE IF a \in {"1", "2"} /\ b \in Digits THEN 2
      ELSE IF a = "0" /\ b \in NonZeroDigits THEN 2
      ELSE IF a \in NonZeroDigits THEN 1
      ELSE IF a = " " /\ b \in NonZeroDigits THEN 2
      ELSE 0

IsLeap(year) == year % 4 = 0 /\ (year % 100 # 0 \/ year % 400 = 0)

DaysInMonth(year, month) ==
  IF month = 2 THEN (IF IsLeap(year) THEN 29 ELSE 28)
  ELSE IF month \in {4, 6, 9, 11} THEN 30
  ELSE 31

\* datetime.datetime.strptime(s, '%Y-%m-%d'): the date, or the ValueError.
Strptime(s) ==
  LET yearOk  == /\ \A i \in 1..4 : CharAt(s, i) \in Digits
                 /\ CharAt(s, 5) = "-"
      mw      == MonthWidth(s)
      sepOk   == CharAt(s, 6 + mw) = "-"
      dstart  == 7 + mw
      dw      == DayWidth(s, dstart)
      matched == yearOk /\ mw > 0 /\ sepOk /\ dw > 0
      end     == dstart + dw - 1
      year    == DecimalValue(SubSeq(s, 1, 4))
      month   == DecimalValue(SubSeq(s, 6, 5 + mw))
      day     == DecimalValue(SubSeq(s, dstart, end))
      failure(error, data) ==
        [ok |-> FALSE, error |-> error, data |-> data,
         year |-> 0, month |-> 0, day |-> 0]
  IN  IF ~matched THEN failure("does not match format", s)
      ELSE IF end # Len(s)
        THEN failure("unconverted data remains", SubSeq(s, end + 1, Len(s)))
      ELSE IF year = 0 THEN failure("year 0 is out of range", <<>>)
      ELSE IF day > DaysInMonth(year, month)
        THEN failure("day is out of range for month", <<>>)
      ELSE [ok |-> TRUE, error |-> "", data |-> <<>>,
            year |-> year, month |-> month, day |-> day]

\* The decimal digits of n > 0, no padding.
RECURSIVE Decimal(_)
Decimal(n) ==
  IF n < 10 THEN <<DigitChars[n + 1]>>
  ELSE Append(Decimal(n \div 10), DigitChars[(n % 10) + 1])

MonthOnlyKeyMutant(date_obj) ==
  <<"2", "0", "2", "4", "-">>
    \o <<DigitChars[(date_obj.month \div 10) + 1], DigitChars[(date_obj.month % 10) + 1]>>

\* date_obj.strftime('%Y-%m')
MonthKey(date_obj) ==
  Decimal(date_obj.year) \o <<"-">>
    \o <<DigitChars[(date_obj.month \div 10) + 1], DigitChars[(date_obj.month % 10) + 1]>>

\* The first loop of analyze_by_time: monthly_stats after the transactions
\* txs, or the exception the first unreadable date raises.
RECURSIVE TimeLoop(_, _)
TimeLoop(monthly_stats, txs) ==
  IF txs = <<>>
  THEN [raised |-> "", error |-> "", data |-> <<>>, stats |-> monthly_stats]
  ELSE LET t == Head(txs) IN
    IF "date" \notin DOMAIN t
    THEN [raised |-> "KeyError", error |-> "date", data |-> <<>>, stats |-> <<>>]
    ELSE LET date_obj == Strptime(t["date"]) IN
      IF ~date_obj.ok
      THEN [raised |-> "ValueError", error |-> date_obj.error,
            data |-> date_obj.data, stats |-> <<>>]
      ELSE LET month_key == MonthKey(date_obj)
               opened == IF month_key \in DOMAIN monthly_stats
                         THEN monthly_stats
                         ELSE (month_key :> [income |-> 0, expenses |-> 0,
                                             categories |-> <<>>]) @@ monthly_stats
               added  == IF t["amount"] > 0
                         THEN [opened EXCEPT ![month_key].income = @ + t["amount"]]
                         ELSE IF t["amount"] < 0
                         THEN [opened EXCEPT
                                 ![month_key].expenses = @ + t["amount"],
                                 ![month_key].categories =
                                    Append(@, Get(t, "category", NoCategory))]
                         ELSE opened
           IN  TimeLoop(added, Tail(txs))

\* collections.Counter(items): <<element, count>> pairs in first-seen order.
RECURSIVE Counter(_, _)
Counter(counts, items) ==
  IF items = <<>> THEN counts
  ELSE LET x == Head(items) IN
    IF \E i \in 1..Len(counts) : counts[i][1] = x
    THEN LET i == CHOOSE i \in 1..Len(counts) : counts[i][1] = x
         IN  Counter([counts EXCEPT ![i] = <<x, @[2] + 1>>], Tail(items))
    ELSE Counter(Append(counts, <<x, 1>>), Tail(items))

\* sorted(pairs, key=itemgetter(1), reverse=True): stable, so of two pairs
\* with equal counts the one that came first stays first.
RECURSIVE SortedByCount(_, _)
SortedByCount(sorted, pairs) ==
  IF pairs = <<>> THEN sorted
  ELSE LET p == Head(pairs)
           k == Cardinality({i \in 1..Len(sorted) : sorted[i][2] >= p[2]})
       IN  SortedByCount(SubSeq(sorted, 1, k) \o <<p>> \o SubSeq(sorted, k + 1, Len(sorted)),
                         Tail(pairs))

\* The n of most_common(n) in analyze_by_time.
TopN == 3

FirstSeenMutant(counts, n) ==
  SubSeq(counts, 1, IF Len(counts) < n THEN Len(counts) ELSE n)

\* Counter.most_common(n) = heapq.nlargest(n, items, key=count), which is
\* sorted(items, key=count, reverse=True)[:n].
MostCommon(counts, n) ==
  LET sorted == SortedByCount(<<>>, counts)
  IN  SubSeq(sorted, 1, IF Len(sorted) < n THEN Len(sorted) ELSE n)

analyze_by_time(txs) ==
  LET loop == TimeLoop(<<>>, txs)
  IN  IF loop.raised # ""
      THEN [raised |-> loop.raised,
            value  |-> [error |-> loop.error, data |-> loop.data]]
      ELSE [raised |-> "",
            value  |-> [month \in DOMAIN loop.stats |->
                          [income         |-> loop.stats[month].income,
                           expenses       |-> loop.stats[month].expenses,
                           categories     |-> loop.stats[month].categories,
                           top_categories |->
                             MostCommon(Counter(<<>>, loop.stats[month].categories), TopN)]]]

----------------------------------------------------------------------------
(* Inputs.  A transaction is a dict: a function on the keys it has.  An    *)
(* optional key is drawn as <<>> (absent) or <<value>> (present).          *)

Field(key, opt) == IF opt = <<>> THEN <<>> ELSE key :> opt[1]

Transaction(date, amount, desc, category) ==
  ("amount" :> amount) @@ Field("date", date)
    @@ Field("description", desc) @@ Field("category", category)

TransactionsOf(dates, amounts, descs, cats) ==
  {Transaction(d, a, s, c) : d \in dates, a \in amounts, s \in descs, c \in cats}

ListsUpTo(S, n) == UNION {[1..k -> S] : k \in 0..n}

\* Descriptions seen by the shipped table.
Zarplata == <<"z", "a", "r", "p", "l", "a", "t", "a">>

KafeObed == <<"k", "a", "f", "e", " ", "o", "b", "e", "d">>

TaksiPoezdka == <<"t", "a", "k", "s", "i", " ", "p", "o", "e", "z", "d", "k", "a">>

MagazinOdezhdy == <<"m", "a", "g", "a", "z", "i", "n", " ", "o", "d", "e", "zh", "d", "y">>

Kommunalka == <<"K", "o", "m", "m", "u", "n", "a", "l", "k", "a", " ", "z", "a", " ", "m", "a", "r", "t">>

Podpiska == <<"p", "o", "d", "p", "i", "s", "k", "a">>

\* Date texts: "2024-01-15".
Jan15 == <<"2", "0", "2", "4", "-", "0", "1", "-", "1", "5">>

\* Date texts: "2024-01-02".
Jan02 == <<"2", "0", "2", "4", "-", "0", "1", "-", "0", "2">>

\* Date texts: "2024-1-5".
Jan5Short == <<"2", "0", "2", "4", "-", "1", "-", "5">>

\* Date texts: "2024-02-01".
Feb01 == <<"2", "0", "2", "4", "-", "0", "2", "-", "0", "1">>

\* Date texts: "2024-02-30".
Feb30 == <<"2", "0", "2", "4", "-", "0", "2", "-", "3", "0">>

\* Date texts: "2023-01-15".
Jan15Prev == <<"2", "0", "2", "3", "-", "0", "1", "-", "1", "5">>

\* Date texts: "2024/01/15".
Slashes == <<"2", "0", "2", "4", "/", "0", "1", "/", "1", "5">>

\* Date texts: "2024-13-01".
Month13 == <<"2", "0", "2", "4", "-", "1", "3", "-", "0", "1">>

\* Date texts: "24-01-05".
ShortYear == <<"2", "4", "-", "0", "1", "-", "0", "5">>

\* Date texts: "2024-01-015".
LongDay == <<"2", "0", "2", "4", "-", "0", "1", "-", "0", "1", "5">>

\* Date texts: "0000-01-01".
YearZero == <<"0", "0", "0", "0", "-", "0", "1", "-", "0", "1">>

\* Date texts: "2024-01- 5".
BlankDay == <<"2", "0", "2", "4", "-", "0", "1", "-", " ", "5">>

\* Date texts: "2024-02-29".
Feb29 == <<"2", "0", "2", "4", "-", "0", "2", "-", "2", "9">>

\* Date texts: "2023-02-29".
Feb29Prev == <<"2", "0", "2", "3", "-", "0", "2", "-", "2", "9">>

\* Date texts: "2024-01-15 ".
TrailingBlank == <<"2", "0", "2", "4", "-", "0", "1", "-", "1", "5", " ">>

\* Date texts: "2024-01".
MonthOnly == <<"2", "0", "2", "4", "-", "0", "1">>

\* The empty date text.
EmptyText == <<>>

\* Small rule tables over a three-letter alphabet, for the categorizer alone.
Chars == {"a", "b", "A"}

Names == {"p", "q"}

KeywordLists ==
  {<<>>, <<<<"a">>>>, <<<<"b">>>>, <<<<"A">>>>,
   <<<<"a">>, <<"a", "b">>>>, <<<<"b", "a">>, <<"b">>>>}

SmallCategories ==
  {<<>>}
  \cup {<<<<n, k>>>> : n \in Names, k \in KeywordLists}
  \cup {<<<<n[1], k1>>, <<n[2], k2>>>> :
          n \in {<<"p", "q">>, <<"q", "p">>}, k1 \in KeywordLists, k2 \in KeywordLists}

\* Every keyword of the shipped table, as written, lower-cased and upper-cased,
\* and the sample descriptions.
ShippedKeywords ==
  UNION {{ShippedCategories[i][2][j] : j \in 1..Len(ShippedCategories[i][2])} :
           i \in 1..Len(ShippedCategories)}

ShippedDescriptions ==
  ShippedKeywords
  \cup {StrLower(k) : k \in ShippedKeywords}
  \cup {StrUpper(k) : k \in ShippedKeywords}
  \cup {EmptyText, Zarplata, KafeObed, TaksiPoezdka, MagazinOdezhdy, Kommunalka, Podpiska}

NoCall == [op |-> "", raised |-> "", value |-> <<>>]

----------------------------------------------------------------------------
(* Initial states: the inputs each specification explores.                 *)

Globals(cats, priority) ==
  /\ categories = cats
  /\ categories_priority = priority

Fresh ==
  /\ categorize_runs = 0
  /\ ret = NoCall

\* The categorizer alone, on every small table and description.
InitCategorize ==
  /\ description \in ListsUpTo(Chars, MaxDescLen)
  /\ categories \in SmallCategories
  /\ categories_priority \in ListsUpTo(Names, MaxPriority)
  /\ transactions = <<>>
  /\ Fresh

\* The categorizer alone, on the shipped table.
InitShipped ==
  /\ description \in ShippedDescriptions
  /\ Globals(ShippedCategories, ShippedPriority)
  /\ transactions = <<>>
  /\ Fresh

\* The pipeline of main(): imported transactions (read_csv_file leaves no
\* 'category' key; read_json_file of 1.py sets it to the transaction type),
\* under the shipped table, an empty table or an empty priority list.
Init ==
  /\ description = <<>>
  /\ \/ Globals(ShippedCategories, ShippedPriority)
     \/ Globals(<<>>, ShippedPriority)
     \/ Globals(ShippedCategories, <<>>)
  /\ transactions \in
       ListsUpTo(TransactionsOf({<<Jan15>>, <<Slashes>>}, {-50, 1000},
                                {<<>>, <<Zarplata>>, <<Podpiska>>},
                                {<<>>, <<"dohod">>}),
                 MaxPipelineTx)
  /\ Fresh

\* Basic and category stats: amounts of every sign, categories absent,
\* empty and named.
InitStats ==
  /\ description = <<>>
  /\ Globals(ShippedCategories, ShippedPriority)
  /\ transactions \in
       ListsUpTo(TransactionsOf({<<Jan15>>}, {-2, -1, 0, 1}, {<<Podpiska>>},
                                {<<>>, <<"">>, <<"transport">>, <<"produkty">>}),
                 MaxStatsTx)
  /\ Fresh

\* Time stats: readable and unreadable dates at every position, and pairs
\* of dates from a wider sample.
InitTime ==
  /\ description = <<>>
  /\ Globals(ShippedCategories, ShippedPriority)
  /\ \/ transactions \in
          ListsUpTo(TransactionsOf({<<Jan15>>, <<Jan5Short>>, <<Feb01>>},
                                   {-1, 0, 2}, {<<Podpiska>>},
                                   {<<>>, <<"transport">>}),
                    MaxTimeTx)
     \/ transactions \in
          ListsUpTo(TransactionsOf({<<>>, <<Feb30>>, <<Jan02>>, <<Jan15Prev>>, <<Slashes>>, <<Month13>>,
                                    <<ShortYear>>, <<LongDay>>, <<YearZero>>, <<BlankDay>>,
                                    <<Feb29>>, <<Feb29Prev>>, <<TrailingBlank>>,
                                    <<MonthOnly>>, <<EmptyText>>},
                                   {-1}, {<<Podpiska>>}, {<<"transport">>}),
                    MaxSampleTx)
  /\ Fresh

\* Top categories: up to four categories per month, expenses and income.
InitTop ==
  /\ description = <<>>
  /\ Globals(ShippedCategories, ShippedPriority)
  /\ transactions \in
       ListsUpTo(TransactionsOf({<<Jan15>>, <<Feb01>>}, {-1}, {<<Podpiska>>},
                                  {<<>>, <<"transport">>, <<"produkty">>, <<"sport">>})
                   \cup TransactionsOf({<<Jan15>>}, {1}, {<<Podpiska>>}, {<<"transport">>}),
                 MaxTopTx)
  /\ Fresh

----------------------------------------------------------------------------
(* Operations: one call each.                                              *)

CallCategorizeTransaction ==
  /\ ret' = [op     |-> "categorize_transaction_with_multiple",
             raised |-> "",
             value  |-> categorize_transaction_with_multiple(
                          description, categories, categories_priority)]
  /\ UNCHANGED <<description, categories, categories_priority, transactions,
                 categorize_runs>>

CallCategorizeAll ==
  /\ transactions' =
       categorize_all_transactions(transactions, categories, categories_priority)
  /\ categorize_runs' = IF categorize_runs < 2 THEN categorize_runs + 1 ELSE 2
  /\ ret' = [op |-> "categorize_all_transactions", raised |-> "",
             value |-> transactions']
  /\ UNCHANGED <<description, categories, categories_priority>>

CallBasicStats ==
  /\ ret' = [op |-> "calculate_basic_stats", raised |-> "",
             value |-> calculate_basic_stats(transactions)]
  /\ UNCHANGED <<description, categories, categories_priority, transactions,
                 categorize_runs>>

CallByCategory ==
  /\ ret' = [op |-> "calculate_by_category", raised |-> "",
             value |-> calculate_by_category(transactions)]
  /\ UNCHANGED <<description, categories, categories_priority, transactions,
                 categorize_runs>>

CallByTime ==
  /\ LET outcome == analyze_by_time(transactions)
     IN  ret' = [op |-> "analyze_by_time", raised |-> outcome.raised,
                 value |-> outcome.value]
  /\ UNCHANGED <<description, categories, categories_priority, transactions,
                 categorize_runs>>

NextCategorize == CallCategorizeTransaction

NextStats == CallBasicStats \/ CallByCategory

NextTime == CallByTime

Next == CallCategorizeAll \/ CallBasicStats \/ CallByCategory \/ CallByTime

SpecCategorize == InitCategorize /\ [][NextCategorize]_vars

SpecShipped == InitShipped /\ [][NextCategorize]_vars

SpecStats == InitStats /\ [][NextStats]_vars

SpecTime == InitTime /\ [][NextTime]_vars

SpecTop == InitTop /\ [][NextTime]_vars

Spec == Init /\ [][Next]_vars

----------------------------------------------------------------------------
(* Vocabulary of the properties, stated without the code's loops.          *)

\* k occurs in s as a contiguous run of characters.
Occurs(k, s) ==
  \E i \in 1..(Len(s) + 1) :
    \A j \in 1..Len(k) : i + j - 1 <= Len(s) /\ s[i + j - 1] = k[j]

\* The keywords the mapping gives category c, as a set.
KeywordSet(c) ==
  UNION {{categories[i][2][j] : j \in 1..Len(categories[i][2])} :
           i \in {n \in 1..Len(categories) : categories[n][1] = c}}

\* Positions of the priority list whose category has a keyword in the
\* lower-cased description.
Matching(desc) ==
  {i \in 1..Len(categories_priority) :
     \E k \in KeywordSet(categories_priority[i]) : Occurs(k, StrLower(desc))}

Least(S) == CHOOSE x \in S : \A y \in S : x <= y

ConfiguredNames ==
  {categories_priority[i] : i \in 1..Len(categories_priority)}
  \cup {categories[i][1] : i \in 1..Len(categories)}

RECURSIVE AmountSum(_, _)
\* Sum of the amounts of the transactions at the positions I.
AmountSum(txs, I) ==
  IF I = {} THEN 0
  ELSE LET i == CHOOSE x \in I : TRUE
       IN  txs[i]["amount"] + AmountSum(txs, I \ {i})

Positions == 1..Len(transactions)

Expenses == {i \in Positions : transactions[i]["amount"] < 0}

\* The bucket key of the transaction at position i.
BucketOf(i) == Get(transactions[i], "category", NoCategory)

Returned(op) == ret.op = op /\ ret.raised = ""

----------------------------------------------------------------------------
(* C1: categorize_transaction_with_multiple returns the category earliest  *)
(* in the priority list among those with at least one keyword occurring in *)
(* the lower-cased description, whatever the order of the mapping and      *)
(* however many keywords each category matches.                            *)
PriorityFirstMatch ==
  (Returned("categorize_transaction_with_multiple") /\ Matching(description) # {})
    => ret.value = categories_priority[Least(Matching(description))]

\* Two different categories match, the later one with more keywords.
PriorityFirstMatchWitness ==
  /\ Returned("categorize_transaction_with_multiple")
  /\ \E i \in Matching(description), j \in Matching(description) :
       /\ i < j
       /\ categories_priority[i] # categories_priority[j]
       /\ Cardinality({k \in KeywordSet(categories_priority[i]) :
                         Occurs(k, StrLower(description))})
            < Cardinality({k \in KeywordSet(categories_priority[j]) :
                             Occurs(k, StrLower(description))})
       /\ ret.value = categories_priority[Least(Matching(description))]

----------------------------------------------------------------------------
(* C2 as stated: after categorize_all_transactions every transaction has a *)
(* non-empty category that is a configured name or "other", and "other"    *)
(* when no rule matches its description.                                   *)
CategoryConfiguredOrOther ==
  categorize_runs > 0 =>
    \A i \in Positions :
      /\ "category" \in DOMAIN transactions[i]
      /\ transactions[i]["category"] # ""
      /\ transactions[i]["category"] \in ConfiguredNames \cup {"other"}
      /\ (Matching(Get(transactions[i], "description", <<>>)) = {}
            => transactions[i]["category"] = "other")

(* C2 amended: after categorize_all_transactions every transaction has a   *)
(* non-empty category that is a configured name or the code's fallback     *)
(* "drugoe", and the fallback when no rule matches its description or it   *)
(* has none.                                                               *)
CategoryConfiguredOrFallback ==
  categorize_runs > 0 =>
    \A i \in Positions :
      /\ "category" \in DOMAIN transactions[i]
      /\ transactions[i]["category"] # ""
      /\ transactions[i]["category"] \in ConfiguredNames \cup {Fallback}
      /\ (Matching(Get(transactions[i], "description", <<>>)) = {}
            => transactions[i]["category"] = Fallback)

\* A transaction without description got the fallback, another a configured name.
CategoryConfiguredOrFallbackWitness ==
  /\ categorize_runs > 0
  /\ \E i \in Positions, j \in Positions :
       /\ "description" \notin DOMAIN transactions[i]
       /\ transactions[i]["category"] = Fallback
       /\ transactions[j]["category"] \in ConfiguredNames

----------------------------------------------------------------------------
(* C3: a keyword that occurs in the description in any letter case makes   *)
(* its category match: the result is that category or one earlier in the   *)
(* priority list.                                                          *)
CaseInsensitiveMatch ==
  Returned("categorize_transaction_with_multiple") =>
    \A i \in 1..Len(categories_priority) :
      \A k \in KeywordSet(categories_priority[i]) :
        Occurs(StrLower(k), StrLower(description))
          => \E j \in 1..i : ret.value = categories_priority[j]

----------------------------------------------------------------------------
(* C4: calculate_basic_stats returns the sum of the amounts >= 0, the sum  *)
(* of the amounts < 0 (at most 0), their sum as balance and the length of  *)
(* the list; all 0 for the empty list.                                     *)
BasicStatsCorrect ==
  Returned("calculate_basic_stats") =>
    /\ ret.value.total_income =
         AmountSum(transactions, {i \in Positions : transactions[i]["amount"] >= 0})
    /\ ret.value.total_expense = AmountSum(transactions, Expenses)
    /\ ret.value.total_expense <= 0
    /\ ret.value.balance = ret.value.total_income + ret.value.total_expense
    /\ ret.value.transaction_count = Len(transactions)
    /\ (transactions = <<>> =>
          ret.value = [total_income |-> 0, total_expense |-> 0,
                       balance |-> 0, transaction_count |-> 0])

\* Income, an expense and a zero amount in one list.
BasicStatsWitness ==
  /\ Returned("calculate_basic_stats")
  /\ \E i \in Positions, j \in Positions, k \in Positions :
       /\ transactions[i]["amount"] > 0
       /\ transactions[j]["amount"] < 0
       /\ transactions[k]["amount"] = 0
  /\ ret.value.total_income > 0
  /\ ret.value.total_expense < 0

----------------------------------------------------------------------------
(* C5: each bucket's percent is (-bucket_sum / -total_expenses) * 100 with *)
(* total_expenses the sum of the negative amounts of the whole list, and 0 *)
(* for every bucket when that sum is 0; a bucket with a positive sum gets  *)
(* a negative percent.  The percent p = <<n, d>> stands for n / d.         *)
PercentOfTotalExpenses ==
  Returned("calculate_by_category") =>
    LET total == AmountSum(transactions, Expenses)
    IN  \A cat \in DOMAIN ret.value :
          LET bucket  == AmountSum(transactions, {i \in Positions : BucketOf(i) = cat})
              percent == ret.value[cat].percent
          IN  /\ percent[2] > 0
              /\ IF total # 0
                 THEN /\ percent[1] * (0 - total) = (0 - bucket) * 100 * percent[2]
                      /\ (bucket > 0 => percent[1] < 0)
                 ELSE percent[1] = 0

\* Expenses in two buckets and a bucket with a positive sum.
PercentWitness ==
  /\ Returned("calculate_by_category")
  /\ \E a \in DOMAIN ret.value, b \in DOMAIN ret.value, c \in DOMAIN ret.value :
       /\ a # b
       /\ ret.value[a].sum < 0
       /\ ret.value[b].sum < 0
       /\ ret.value[a].percent[1] > 0
       /\ ret.value[c].sum > 0
       /\ ret.value[c].percent[1] < 0

----------------------------------------------------------------------------
(* C6: calculate_by_category drops no transaction and puts the             *)
(* transactions with no category and those with an empty category into one *)
(* bucket of their own; the counts add up to the length of the list and    *)
(* the sums to the sum of all amounts.                                     *)
UncategorizedShareBucket ==
  Returned("calculate_by_category") =>
    LET uncategorized == {i \in Positions :
                            \/ "category" \notin DOMAIN transactions[i]
                            \/ transactions[i]["category"] = ""}
        named == {transactions[i]["category"] : i \in Positions \ uncategorized}
        counts[S \in SUBSET DOMAIN ret.value] ==
          IF S = {} THEN 0
          ELSE LET c == CHOOSE x \in S : TRUE
               IN  ret.value[c].count + counts[S \ {c}]
        sums[S \in SUBSET DOMAIN ret.value] ==
          IF S = {} THEN 0
          ELSE LET c == CHOOSE x \in S : TRUE
               IN  ret.value[c].sum + sums[S \ {c}]
    IN  /\ uncategorized # {} =>
             \E u \in DOMAIN ret.value \ named :
               /\ ret.value[u].count = Cardinality(uncategorized)
               /\ ret.value[u].sum = AmountSum(transactions, uncategorized)
        /\ counts[DOMAIN ret.value] = Len(transactions)
        /\ sums[DOMAIN ret.value] = AmountSum(transactions, Positions)

----------------------------------------------------------------------------
(* Calendar months, read off the date text and off a bucket key.           *)

\* <<year, month>> of a date text: the digits before and after the first '-'.
CalendarMonth(date) ==
  LET second == CHOOSE j \in 6..Len(date) :
                  date[j] = "-" /\ \A k \in 6..(j - 1) : date[k] # "-"
  IN  <<DecimalValue(SubSeq(date, 1, 4)), DecimalValue(SubSeq(date, 6, second - 1))>>

\* A key of the form YYYY-MM.
WellFormedKey(key) ==
  /\ Len(key) = 7
  /\ key[5] = "-"
  /\ \A i \in {1, 2, 3, 4, 6, 7} : key[i] \in Digits

KeyMonth(key) ==
  <<DecimalValue(SubSeq(key, 1, 4)), DecimalValue(SubSeq(key, 6, 7))>>

\* Positions of the transactions dated in the month of the key.
InMonth(key) ==
  {i \in Positions : CalendarMonth(transactions[i]["date"]) = KeyMonth(key)}

\* The bucket keys of the positions I, in list order.
BucketsInOrder(I) ==
  [k \in 1..Cardinality(I) |->
     BucketOf(CHOOSE i \in I : Cardinality({j \in I : j <= i}) = k)]

\* A date text of the form YYYY-MM-DD.
IsoForm(date) ==
  /\ Len(date) = 10
  /\ date[5] = "-"
  /\ date[8] = "-"
  /\ \A i \in {1, 2, 3, 4, 6, 7, 9, 10} : date[i] \in Digits

----------------------------------------------------------------------------
(* C7: in every month bucket top_categories has at most 3 pairs            *)
(* (category, number of that month's expense transactions with it), in     *)
(* descending count, ties in order of first occurrence among the month's   *)
(* expenses; every omitted category ranks after every listed one; a month  *)
(* without expenses has the empty list.                                    *)
TopCategoriesRanked ==
  Returned("analyze_by_time") =>
    \A key \in DOMAIN ret.value :
      LET E   == InMonth(key) \cap Expenses
          top == ret.value[key].top_categories
          cats == {BucketOf(i) : i \in E}
          Count(c) == Cardinality({i \in E : BucketOf(i) = c})
          First(c) == Least({i \in E : BucketOf(i) = c})
          Before(c, d) ==
            \/ Count(c) > Count(d)
            \/ Count(c) = Count(d) /\ First(c) < First(d)
          listed == {top[k][1] : k \in 1..Len(top)}
      IN  /\ Len(top) <= 3
          /\ Len(top) = IF Cardinality(cats) < 3 THEN Cardinality(cats) ELSE 3
          /\ \A k \in 1..Len(top) :
               top[k][1] \in cats /\ top[k][2] = Count(top[k][1])
          /\ \A k \in 1..Len(top), l \in 1..Len(top) :
               k < l => Before(top[k][1], top[l][1])
          /\ \A c \in cats \ listed : \A d \in listed : Before(d, c)
          /\ (E = {} => top = <<>>)

\* A month with four expense categories, each met once: the first three
\* encountered are listed and the fourth is left out.
TopCategoriesWitness ==
  /\ Returned("analyze_by_time")
  /\ \E key \in DOMAIN ret.value :
       LET E   == InMonth(key) \cap Expenses
           top == ret.value[key].top_categories
       IN  /\ Cardinality({BucketOf(i) : i \in E}) = 4
           /\ Len(top) = 3
           /\ \A k \in 1..3 : top[k] = <<BucketOf(k), 1>>

----------------------------------------------------------------------------
(* C8: analyze_by_time returns one bucket per calendar month among the     *)
(* dates, keyed YYYY-MM; a bucket's income is the sum of the month's       *)
(* amounts > 0, its expenses the sum of the month's amounts < 0, and its   *)
(* category list has one entry per expense transaction of the month, in    *)
(* list order, and none for the others.                                    *)
MonthBuckets ==
  Returned("analyze_by_time") =>
    /\ \A key \in DOMAIN ret.value : WellFormedKey(key) /\ InMonth(key) # {}
    /\ \A i \in Positions : \E key \in DOMAIN ret.value : i \in InMonth(key)
    /\ \A k1 \in DOMAIN ret.value, k2 \in DOMAIN ret.value :
         KeyMonth(k1) = KeyMonth(k2) => k1 = k2
    /\ \A key \in DOMAIN ret.value :
         /\ ret.value[key].income =
              AmountSum(transactions,
                        {i \in InMonth(key) : transactions[i]["amount"] > 0})
         /\ ret.value[key].expenses =
              AmountSum(transactions, InMonth(key) \cap Expenses)
         /\ ret.value[key].categories = BucketsInOrder(InMonth(key) \cap Expenses)

\* Two months; one of them holds two dates written differently, two expenses
\* of one category and a zero amount.
MonthBucketsWitness ==
  /\ Returned("analyze_by_time")
  /\ Cardinality(DOMAIN ret.value) = 2
  /\ \E key \in DOMAIN ret.value :
       /\ \E i \in InMonth(key), j \in InMonth(key) :
            transactions[i]["date"] # transactions[j]["date"]
       /\ Len(ret.value[key].categories) = 2
       /\ ret.value[key].categories[1] = ret.value[key].categories[2]
  /\ \E i \in Positions : transactions[i]["amount"] = 0

----------------------------------------------------------------------------
(* C9: when some transaction has no date or a date not of the form         *)
(* YYYY-MM-DD, analyze_by_time fails with a date parse error naming such a *)
(* transaction's date, and returns no statistics.                          *)
MalformedDateFails ==
  ret.op = "analyze_by_time" =>
    LET bad == {i \in Positions :
                  \/ "date" \notin DOMAIN transactions[i]
                  \/ ~IsoForm(transactions[i]["date"])}
    IN  bad # {} =>
          /\ ret.raised = "ValueError"
          /\ \E i \in bad : ret.value.data = Get(transactions[i], "date", <<>>)

----------------------------------------------------------------------------
(* C10: the aggregation passes leave the transaction list as it is;        *)
(* categorize_all_transactions changes nothing but the category of each    *)
(* transaction; run again on the categorized list it changes nothing.      *)
AggregationOps == {"calculate_basic_stats", "calculate_by_category", "analyze_by_time"}

FrameEffect ==
  [][/\ ret'.op \in AggregationOps => transactions' = transactions
     /\ Len(transactions') = Len(transactions)
     /\ \A i \in Positions :
          /\ DOMAIN transactions'[i] \ {"category"} = DOMAIN transactions[i] \ {"category"}
          /\ \A k \in DOMAIN transactions[i] \ {"category"} :
               transactions'[i][k] = transactions[i][k]
     /\ categorize_runs > 0 => transactions' = transactions]_vars

\* An aggregation pass has run after the list was categorized twice.
FrameEffectWitness ==
  /\ categorize_runs = 2
  /\ transactions # <<>>
  /\ ret.op \in AggregationOps

====
